---- MODULE Spec2Model ----
(***************************************************************************)
(* VisionChroma-pro (ColorSync Access): colour normalisation, WCAG         *)
(* contrast evaluation under normal and simulated colour-deficient vision, *)
(* issue classification, ranking and scoring, as implemented in            *)
(* src/app.py and src/modules.                                             *)
(*                                                                         *)
(* Representation.  A Python string is a sequence of one-character         *)
(* strings.  Python's None is the value None below.  A contrast ratio or a *)
(* threshold is the integer 100 * value (ratios are rounded to 2 decimals  *)
(* by the code).  A relative luminance is the integer 10^6 * value.  A     *)
(* colour channel that may be fractional (after a colour-blind transform)  *)
(* is the integer 1000 * value.                                            *)
(***************************************************************************)
EXTENDS Integers, Sequences, FiniteSets, TLC

VARIABLES
    mode,            \* which entry point is exercised: "norm" or "run"
    raw,             \* normalize_hex: the argument h
    hx,              \* normalize_hex(raw), or Unset
    hx2,             \* normalize_hex(hx), or Unset
    pc,              \* position in the analyze_btn handler of app.py
    page,            \* colour values found in the fetched HTML, in document order
    threshold,       \* sidebar selectbox value, times 100
    colors,          \* result of extract_colors_from_html_css
    cleaned_colors,  \* local cleaned_colors of the handler
    pairs,           \* local pairs of the handler
    issues,          \* local issues of the handler
    pass,            \* which of the two classification loops is running (1 or 2)
    data,            \* local dict data of the handler
    contrast,        \* contrast sub-score shown by the results view, times 10
    colorA,          \* contrast_ratio / colorblind_contrast_ratio: first colour
    colorB,          \* second colour; the bg_hex of best_text_color
    ratios,          \* <<the four ratios of (colorA, colorB), times 100>>, empty before the call
    best,            \* best_text_color(colorB), or Unset
    score_in,        \* <<arguments of compute_score_breakdown>>, empty when not called
    score_out,       \* <<value returned by compute_score_breakdown>>, empty before the return
    url,             \* the text input "Enter Website URL"
    analysis,        \* <<st.session_state.analysis>>, empty while nothing is stored
    contrast_chart,  \* local contrast_chart of the handler, or Unset while unbound
    readability_local, \* <<local readability of the handler>>, empty before Step 4
    shown,           \* st.error / st.warning / st.success calls of the current script run
    heatmap,         \* <<outcome of the heatmap section of the results view>>, empty before it
    direct,          \* fetch_website_content: outcome of session.get(url)
    proxy,           \* fetch_website_content: outcome of session.get(proxy)
    requests_made,   \* fetch_website_content: the requests sent so far, in order
    fetched,         \* <<value returned by fetch_website_content>>, empty before the return
    export_in,       \* export_analysis_json: the issue ratios of data, times 100
    export_out       \* <<the compliance and scores counts of the export>>, empty before the call

normVars == <<raw, hx, hx2>>
runVars == <<pc, page, threshold, colors, cleaned_colors, pairs, issues, pass, data, contrast>>
colorVars == <<colorA, colorB, ratios, best>>
scoreVars == <<score_in, score_out>>
sessionVars == <<url, analysis, contrast_chart, readability_local, shown, heatmap>>
fetchVars == <<direct, proxy, requests_made, fetched>>
exportVars == <<export_in, export_out>>
vars == <<mode, raw, hx, hx2, pc, page, threshold, colors, cleaned_colors, pairs, issues, pass, data, contrast,
          colorA, colorB, ratios, best, score_in, score_out,
          url, analysis, contrast_chart, readability_local, shown, heatmap,
          direct, proxy, requests_made, fetched, export_in, export_out>>

None == <<"None">>
Unset == <<"Unset">>

(***************************************************************************)
(* Character and string helpers (Python str methods used by the code).     *)
(***************************************************************************)
DecDigits == <<"0", "1", "2", "3", "4", "5", "6", "7", "8", "9">>
HexUpper == <<"0", "1", "2", "3", "4", "5", "6", "7", "8", "9", "A", "B", "C", "D", "E", "F">>
HexLower == <<"0", "1", "2", "3", "4", "5", "6", "7", "8", "9", "a", "b", "c", "d", "e", "f">>
AlphaUpper == <<"A", "B", "C", "D", "E", "F", "G", "H", "I", "J", "K", "L", "M",
                "N", "O", "P", "Q", "R", "S", "T", "U", "V", "W", "X", "Y", "Z">>
AlphaLower == <<"a", "b", "c", "d", "e", "f", "g", "h", "i", "j", "k", "l", "m",
                "n", "o", "p", "q", "r", "s", "t", "u", "v", "w", "x", "y", "z">>

IndexOf(c, s) ==
    IF \E i \in 1..Len(s) : s[i] = c
    THEN CHOOSE i \in 1..Len(s) : s[i] = c /\ \A j \in 1..(i - 1) : s[j] # c
    ELSE 0

HexVal(c) == IF IndexOf(c, HexUpper) > 0 THEN IndexOf(c, HexUpper) - 1 ELSE IndexOf(c, HexLower) - 1
UpperChar(c) == IF IndexOf(c, AlphaLower) > 0 THEN AlphaUpper[IndexOf(c, AlphaLower)] ELSE c
LowerChar(c) == IF IndexOf(c, AlphaUpper) > 0 THEN AlphaLower[IndexOf(c, AlphaUpper)] ELSE c
Upper(s) == [i \in 1..Len(s) |-> UpperChar(s[i])]
Lower(s) == [i \in 1..Len(s) |-> LowerChar(s[i])]

\* s[a:b] of Python, with 0-based a and exclusive b, clipped to the string
Slice(s, a, b) == SubSeq(s, a + 1, IF b > Len(s) THEN Len(s) ELSE b)

StartsWith(s, p) == Len(s) >= Len(p) /\ SubSeq(s, 1, Len(p)) = p

\* number of leading characters of s satisfying the test given as a set of characters
RECURSIVE LeadCount(_, _)
LeadCount(s, chars) ==
    IF s = <<>> \/ ~(Head(s) \in chars) THEN 0 ELSE 1 + LeadCount(Tail(s), chars)

RECURSIVE TrailCount(_, _)
TrailCount(s, chars) ==
    IF s = <<>> \/ ~(s[Len(s)] \in chars) THEN 0
    ELSE 1 + TrailCount(SubSeq(s, 1, Len(s) - 1), chars)

\* str.strip(chars)
StripChars(s, chars) ==
    LET a == LeadCount(s, chars)
        t == SubSeq(s, a + 1, Len(s))
    IN SubSeq(t, 1, Len(t) - TrailCount(t, chars))

\* str.strip(): whitespace is modelled by the space character
Strip(s) == StripChars(s, {" "})

\* str.lstrip('#')
LStripHash(s) == SubSeq(s, LeadCount(s, {"#"}) + 1, Len(s))

\* str.split(sep) for a one-character separator
RECURSIVE Split(_, _)
Split(s, sep) ==
    LET k == IndexOf(sep, s)
    IN IF k = 0 THEN <<s>>
       ELSE <<SubSeq(s, 1, k - 1)>> \o Split(SubSeq(s, k + 1, Len(s)), sep)

\* ''.join([c*2 for c in hh])
RECURSIVE Doubled(_)
Doubled(s) == IF s = <<>> THEN <<>> ELSE <<Head(s), Head(s)>> \o Doubled(Tail(s))

HexDigitSet == {HexUpper[i] : i \in 1..16} \cup {HexLower[i] : i \in 1..16}
DecDigitSet == {DecDigits[i] : i \in 1..10}
AllHex(s) == \A i \in 1..Len(s) : s[i] \in HexDigitSet
AllDec(s) == \A i \in 1..Len(s) : s[i] \in DecDigitSet

(***************************************************************************)
(* normalize_hex (src/app.py).                                             *)
(***************************************************************************)
RECURSIVE DecValue(_)
DecValue(s) == IF s = <<>> THEN 0 ELSE 10 * DecValue(SubSeq(s, 1, Len(s) - 1)) + (IndexOf(s[Len(s)], DecDigits) - 1)

\* int(float(p.strip())): optional sign, digits, optional fraction; the value is
\* truncated toward zero.  Exponent forms, inf and nan are not in the modelled
\* inputs and are treated as a ValueError (ok = FALSE).
ParseNumber(p) ==
    LET t == Strip(p)
        signed == t # <<>> /\ Head(t) \in {"-", "+"}
        body == IF signed THEN Tail(t) ELSE t
        k == IndexOf(".", body)
        intPart == IF k = 0 THEN body ELSE SubSeq(body, 1, k - 1)
        frac == IF k = 0 THEN <<>> ELSE SubSeq(body, k + 1, Len(body))
        mag == DecValue(intPart)
    IN [ok |-> AllDec(intPart) /\ AllDec(frac) /\ Len(intPart) + Len(frac) > 0,
        val |-> IF signed /\ Head(t) = "-" THEN 0 - mag ELSE mag]

RECURSIVE ToHex(_)
ToHex(n) == IF n < 16 THEN <<HexUpper[n + 1]>> ELSE ToHex(n \div 16) \o <<HexUpper[(n % 16) + 1]>>

\* '{:02X}'.format(n): no range check, a sign for negative n, more than two
\* digits for n > 255
Format02X(n) ==
    IF n < 0 THEN <<"-">> \o ToHex(0 - n)
    ELSE IF n < 16 THEN <<"0">> \o ToHex(n)
    ELSE ToHex(n)

\* re.match(r'rgba?\(([^)]+)\)', h): group 1, or None
RgbGroup(h) ==
    LET start == IF StartsWith(h, <<"r", "g", "b", "a", "(">>) THEN 5
                 ELSE IF StartsWith(h, <<"r", "g", "b", "(">>) THEN 4
                 ELSE 0
        rest == SubSeq(h, start + 1, Len(h))
        close == IndexOf(")", rest)
    IN IF start > 0 /\ close >= 2 THEN SubSeq(rest, 1, close - 1) ELSE None

\* re.match(r'#([0-9A-Fa-f]{3,8})', h): group 1, or None
HexGroup(h) ==
    LET k == IF h # <<>> /\ Head(h) = "#" THEN LeadCount(Tail(h), HexDigitSet) ELSE 0
    IN IF k >= 3 THEN SubSeq(h, 2, 1 + (IF k > 8 THEN 8 ELSE k)) ELSE None

named ==
<<
    <<<<"b", "l", "a", "c", "k">>, <<"#", "0", "0", "0", "0", "0", "0">>>>,
    <<<<"w", "h", "i", "t", "e">>, <<"#", "F", "F", "F", "F", "F", "F">>>>,
    <<<<"r", "e", "d">>, <<"#", "F", "F", "0", "0", "0", "0">>>>,
    <<<<"b", "l", "u", "e">>, <<"#", "0", "0", "0", "0", "F", "F">>>>,
    <<<<"g", "r", "e", "e", "n">>, <<"#", "0", "0", "8", "0", "0", "0">>>>,
    <<<<"g", "r", "a", "y">>, <<"#", "8", "0", "8", "0", "8", "0">>>>,
    <<<<"g", "r", "e", "y">>, <<"#", "8", "0", "8", "0", "8", "0">>>>,
    <<<<"y", "e", "l", "l", "o", "w">>, <<"#", "F", "F", "F", "F", "0", "0">>>>
>>

NamedLookup(h) ==
    IF \E i \in 1..Len(named) : named[i][1] = h
    THEN named[CHOOSE i \in 1..Len(named) : named[i][1] = h][2]
    ELSE None

normalize_hex(h0) ==
    LET h == Strip(h0)
        m == RgbGroup(h)
        parts == IF m = None THEN <<>> ELSE Split(m, ",")
        first3 == SubSeq(parts, 1, IF Len(parts) > 3 THEN 3 ELSE Len(parts))
        m2 == HexGroup(h)
    IN IF h = <<>> THEN None
       ELSE IF m # None
       THEN IF Len(first3) = 3 /\ \A i \in 1..3 : ParseNumber(first3[i]).ok
            THEN <<"#">> \o Format02X(ParseNumber(first3[1]).val)
                         \o Format02X(ParseNumber(first3[2]).val)
                         \o Format02X(ParseNumber(first3[3]).val)
            ELSE None
       ELSE IF m2 # None
       THEN <<"#">> \o Upper(IF Len(m2) = 3 THEN Doubled(m2) ELSE m2)
       ELSE NamedLookup(Lower(h))

(***************************************************************************)
(* Colour arithmetic (src/app.py, src/modules/colorblind_simulator.py).    *)
(* The code computes in IEEE doubles; the model computes in scaled         *)
(* integers that stay below 2^31.                                          *)
(***************************************************************************)
RECURSIVE HexNum(_)
HexNum(s) == IF s = <<>> THEN 0 ELSE 16 * HexNum(SubSeq(s, 1, Len(s) - 1)) + HexVal(s[Len(s)])

\* int(s, 16) raises ValueError on an empty slice or a non-hex character
IntHexRaises(s) == s = <<>> \/ ~AllHex(s)

HexBody(hex_color) ==
    LET h == LStripHash(hex_color)
    IN IF Len(h) = 3 THEN Doubled(h) ELSE h

\* TRUE when the body of hex_to_rgb raises and the except branch returns (0,0,0)
HexToRgbRaises(hex_color) ==
    LET h == HexBody(hex_color)
    IN IntHexRaises(Slice(h, 0, 2)) \/ IntHexRaises(Slice(h, 2, 4)) \/ IntHexRaises(Slice(h, 4, 6))

\* hex_to_rgb without the lstrip('#'): the slices start at the '#'
hex_to_rgb_NoStrip(hex_color) ==
    IF IntHexRaises(Slice(hex_color, 0, 2)) \/ IntHexRaises(Slice(hex_color, 2, 4))
       \/ IntHexRaises(Slice(hex_color, 4, 6))
    THEN <<0, 0, 0>>
    ELSE <<HexNum(Slice(hex_color, 0, 2)), HexNum(Slice(hex_color, 2, 4)), HexNum(Slice(hex_color, 4, 6))>>

hex_to_rgb(hex_color) ==
    LET h == HexBody(hex_color)
    IN IF HexToRgbRaises(hex_color) THEN <<0, 0, 0>>
       ELSE <<HexNum(Slice(h, 0, 2)), HexNum(Slice(h, 2, 4)), HexNum(Slice(h, 4, 6))>>

\* 10^6 * srgb_to_linear_channel(c) for c = 0..255 (entry c + 1):
\* c/255/12.92 if c/255 <= 0.03928, else ((c/255 + 0.055)/1.055) ** 2.4
LinearTable ==
<<
    0, 304, 607, 911, 1214, 1518, 1821, 2125,
    2428, 2732, 3035, 3347, 3677, 4025, 4391, 4777,
    5182, 5605, 6049, 6512, 6995, 7499, 8023, 8568,
    9134, 9721, 10330, 10960, 11612, 12286, 12983, 13702,
    14444, 15209, 15996, 16807, 17642, 18500, 19382, 20289,
    21219, 22174, 23153, 24158, 25187, 26241, 27321, 28426,
    29557, 30713, 31896, 33105, 34340, 35601, 36889, 38204,
    39546, 40915, 42311, 43735, 45186, 46665, 48172, 49707,
    51269, 52861, 54480, 56128, 57805, 59511, 61246, 63010,
    64803, 66626, 68478, 70360, 72272, 74214, 76185, 78187,
    80220, 82283, 84376, 86500, 88656, 90842, 93059, 95307,
    97587, 99899, 102242, 104616, 107023, 109462, 111932, 114435,
    116971, 119538, 122139, 124772, 127438, 130136, 132868, 135633,
    138432, 141263, 144128, 147027, 149960, 152926, 155926, 158961,
    162029, 165132, 168269, 171441, 174647, 177888, 181164, 184475,
    187821, 191202, 194618, 198069, 201556, 205079, 208637, 212231,
    215861, 219526, 223228, 226966, 230740, 234551, 238398, 242281,
    246201, 250158, 254152, 258183, 262251, 266356, 270498, 274677,
    278894, 283149, 287441, 291771, 296138, 300544, 304987, 309469,
    313989, 318547, 323143, 327778, 332452, 337164, 341914, 346704,
    351533, 356400, 361307, 366253, 371238, 376262, 381326, 386429,
    391572, 396755, 401978, 407240, 412543, 417885, 423268, 428690,
    434154, 439657, 445201, 450786, 456411, 462077, 467784, 473531,
    479320, 485150, 491021, 496933, 502886, 508881, 514918, 520996,
    527115, 533276, 539479, 545724, 552011, 558340, 564712, 571125,
    577580, 584078, 590619, 597202, 603827, 610496, 617207, 623960,
    630757, 637597, 644480, 651406, 658375, 665387, 672443, 679542,
    686685, 693872, 701102, 708376, 715694, 723055, 730461, 737910,
    745404, 752942, 760525, 768151, 775822, 783538, 791298, 799103,
    806952, 814847, 822786, 830770, 838799, 846873, 854993, 863157,
    871367, 879622, 887923, 896269, 904661, 913099, 921582, 930111,
    938686, 947307, 955973, 964686, 973445, 982251, 991102, 1000000
>>

\* 10^6 * srgb_to_linear_channel(c1000 / 1000); between two integer channel
\* values the transfer function is interpolated linearly
srgb_to_linear_channel(c1000) ==
    LET q == c1000 \div 1000
        r == c1000 % 1000
    IN IF r = 0 THEN LinearTable[q + 1]
       ELSE LinearTable[q + 1] + ((LinearTable[q + 2] - LinearTable[q + 1]) * r) \div 1000

\* (w / 10000) * x for a weight w in ten-thousandths and x <= 10^6
Weighted(w, x) == (w * (x \div 1000) * 100 + (w * (x % 1000)) \div 10) \div 1000

\* 10^6 * relative_luminance(rgb), rgb given in thousandths of a channel unit
relative_luminance(rgb1000) ==
    Weighted(2126, srgb_to_linear_channel(rgb1000[1]))
    + Weighted(7152, srgb_to_linear_channel(rgb1000[2]))
    + Weighted(722, srgb_to_linear_channel(rgb1000[3]))

Max2(a, b) == IF a >= b THEN a ELSE b
Min2(a, b) == IF a <= b THEN a ELSE b

\* the ratio without lighter = max(...) and darker = min(...)
RatioOfLuminancesUnordered(L1, L2) ==
    (200 * (L1 + 50000) + (L2 + 50000)) \div (2 * (L2 + 50000))

\* the ratio with 0.005 in place of 0.05
RatioOfLuminancesSmallFlare(L1, L2) ==
    LET lighter == Max2(L1, L2) + 5000
        darker == Min2(L1, L2) + 5000
    IN (200 * lighter + darker) \div (2 * darker)

\* 100 * round((max(L1, L2) + 0.05) / (min(L1, L2) + 0.05), 2)
RatioOfLuminances(L1, L2) ==
    LET lighter == Max2(L1, L2) + 50000
        darker == Min2(L1, L2) + 50000
    IN (200 * lighter + darker) \div (2 * darker)

Milli(rgb) == <<rgb[1] * 1000, rgb[2] * 1000, rgb[3] * 1000>>

\* contrast_ratio computed on protanopia-simulated colours
contrast_ratio_Simulated(hex1, hex2) ==
    LET mat == <<<<567, 433, 0>>, <<558, 442, 0>>, <<0, 242, 758>>>>
        sim(rgb) == [i \in 1..3 |->
                        Min2(255000, Max2(0, rgb[1] * mat[i][1] + rgb[2] * mat[i][2] + rgb[3] * mat[i][3]))]
    IN RatioOfLuminances(relative_luminance(sim(hex_to_rgb(hex1))),
                         relative_luminance(sim(hex_to_rgb(hex2))))

contrast_ratio(hex1, hex2) ==
    RatioOfLuminances(relative_luminance(Milli(hex_to_rgb(hex1))),
                      relative_luminance(Milli(hex_to_rgb(hex2))))

\* matrices with a first protanopia row that does not sum to 1
MATRICES_RowSum ==
    [protanopia |-> <<<<567, 400, 0>>, <<558, 442, 0>>, <<0, 242, 758>>>>,
     deuteranopia |-> <<<<625, 375, 0>>, <<700, 300, 0>>, <<0, 300, 700>>>>,
     tritanopia |-> <<<<950, 50, 0>>, <<0, 433, 567>>, <<0, 475, 525>>>>]

\* matrix entries in thousandths
MATRICES ==
    [protanopia |-> <<<<567, 433, 0>>, <<558, 442, 0>>, <<0, 242, 758>>>>,
     deuteranopia |-> <<<<625, 375, 0>>, <<700, 300, 0>>, <<0, 300, 700>>>>,
     tritanopia |-> <<<<950, 50, 0>>, <<0, 433, 567>>, <<0, 475, 525>>>>]

\* iteration order of the dict MATRICES
CbTypes == <<"protanopia", "deuteranopia", "tritanopia">>

\* np.clip(rgb/255 @ mat.T, 0, 1) * 255, in thousandths of a channel unit
colorblind_transform(rgb, mat) ==
    [i \in 1..3 |->
        Min2(255000, Max2(0, rgb[1] * mat[i][1] + rgb[2] * mat[i][2] + rgb[3] * mat[i][3]))]

\* the ratio l1 over l2 without max and min
colorblind_contrast_ratio_Unordered(fg_hex, bg_hex, cb_type) ==
    LET mat == MATRICES[cb_type]
        l1 == relative_luminance(colorblind_transform(hex_to_rgb(fg_hex), mat)) + 50000
        l2 == relative_luminance(colorblind_transform(hex_to_rgb(bg_hex), mat)) + 50000
    IN (200 * l1 + l2) \div (2 * l2)

colorblind_contrast_ratio(fg_hex, bg_hex, cb_type) ==
    LET mat == MATRICES[cb_type]
        fg_cb == colorblind_transform(hex_to_rgb(fg_hex), mat)
        bg_cb == colorblind_transform(hex_to_rgb(bg_hex), mat)
    IN RatioOfLuminances(relative_luminance(fg_cb), relative_luminance(bg_cb))

(***************************************************************************)
(* Palette extraction and the analyze_btn handler (src/app.py).            *)
(***************************************************************************)
PaletteCap == 24
AnalysisCap == 20
IssueCap == 15

Prefix(s, n) == SubSeq(s, 1, Min2(n, Len(s)))

\* the loops "hx = normalize_hex(m); if hx and hx not in colors: colors.append(hx)"
RECURSIVE CollectColors(_, _)
CollectColors(found, acc) ==
    IF found = <<>> THEN acc
    ELSE LET hx_ == normalize_hex(Head(found))
         IN CollectColors(Tail(found),
                IF hx_ # None /\ ~(\E i \in 1..Len(acc) : acc[i] = hx_)
                THEN Append(acc, hx_) ELSE acc)

\* the fallback palette of extract_colors_from_html_css
DefaultColors == <<<<"#", "F", "F", "F", "F", "F", "F">>, <<"#", "0", "0", "0", "0", "0", "0">>>>

\* found: the colour values matched in the document, in document order
extract_colors_from_html_css(found) ==
    LET collected == CollectColors(found, <<>>)
    IN Prefix(IF Len(collected) = 0 THEN DefaultColors ELSE collected, PaletteCap)

\* re.match(r'^#?[0-9a-fA-F]{3,6}$', clean_color)
IsHexColor(c) ==
    LET body == IF c # <<>> /\ Head(c) = "#" THEN Tail(c) ELSE c
    IN Len(body) >= 3 /\ Len(body) <= 6 /\ AllHex(body)

\* re.match(r'^rgb\(\s*\d+,\s*\d+,\s*\d+\s*\)$', clean_color)
IsRgbColor(c) ==
    /\ StartsWith(c, <<"r", "g", "b", "(">>)
    /\ c[Len(c)] = ")"
    /\ LET parts == Split(SubSeq(c, 5, Len(c) - 1), ",")
       IN /\ Len(parts) = 3
          /\ \A i \in 1..3 :
                LET lead == LeadCount(parts[i], {" "})
                    p == SubSeq(parts[i], lead + 1, Len(parts[i]))
                    digits == IF i = 3 THEN Strip(p) ELSE p
                IN digits # <<>> /\ AllDec(digits)

LowerHexDigits(n) == Lower(Format02X(n))

\* [int(x.strip()) for x in clean_color.strip('rgb()').split(',')] formatted
\* with '#{:02x}{:02x}{:02x}' and upper-cased
RgbToHex(c) ==
    LET parts == Split(StripChars(c, {"r", "g", "b", "(", ")"}), ",")
    IN Upper(<<"#">> \o LowerHexDigits(DecValue(Strip(parts[1])))
                     \o LowerHexDigits(DecValue(Strip(parts[2])))
                     \o LowerHexDigits(DecValue(Strip(parts[3]))))

\* the cleaned_colors loop leaving at the first rejected value instead of skipping it
RECURSIVE CleanColorListBreak(_)
CleanColorListBreak(cs) ==
    IF cs = <<>> THEN <<>>
    ELSE LET clean_color == StripChars(StripChars(Strip(Head(cs)), {"\""}), {"'"})
         IN IF IsHexColor(clean_color) /\ Head(clean_color) = "#"
            THEN <<clean_color>> \o CleanColorListBreak(Tail(cs))
            ELSE <<>>

\* the cleaned_colors loop, before the [:20] slice
RECURSIVE CleanColorList(_)
CleanColorList(cs) ==
    IF cs = <<>> THEN <<>>
    ELSE LET color_val == Head(cs)
             clean_color == StripChars(StripChars(Strip(color_val), {"\""}), {"'"})
             kept == IF Len(Strip(color_val)) = 0 THEN <<>>
                     ELSE IF IsHexColor(clean_color)
                     THEN IF Head(clean_color) = "#" THEN <<clean_color>>
                          ELSE <<<<"#">> \o clean_color>>
                     ELSE IF IsRgbColor(clean_color) THEN <<RgbToHex(clean_color)>>
                     ELSE <<>>
         IN kept \o CleanColorList(Tail(cs))

\* number of combinations <<a, b>> of 1..n, a < b, that precede row i in
\* the order of itertools.combinations
RowStart(i, n) == (i - 1) * n - (i * (i - 1)) \div 2

\* list(itertools.combinations(range(1, n + 1), 2))
Combinations(n) ==
    [k \in 1..((n * (n - 1)) \div 2) |->
        LET i == CHOOSE a \in 1..(n - 1) : RowStart(a, n) < k /\ k <= RowStart(a + 1, n)
        IN <<i, i + (k - RowStart(i, n))>>]

\* pair generation with the second append writing the same direction again
GeneratePairListOneWay(cs) ==
    LET combos == Combinations(Len(cs))
    IN [k \in 1..(2 * Len(combos)) |->
          LET c == combos[(k + 1) \div 2]
          IN [fg |-> cs[c[1]], bg |-> cs[c[2]]]]

\* for fg, bg in combinations(cleaned_colors, 2): both orders are appended
GeneratePairList(cs) ==
    LET combos == Combinations(Len(cs))
    IN [k \in 1..(2 * Len(combos)) |->
          LET c == combos[(k + 1) \div 2]
          IN IF k % 2 = 1 THEN [fg |-> cs[c[1]], bg |-> cs[c[2]]]
             ELSE [fg |-> cs[c[2]], bg |-> cs[c[1]]]]

CbRatios(pair) ==
    [cb_type \in {CbTypes[i] : i \in 1..3} |-> colorblind_contrast_ratio(pair.fg, pair.bg, cb_type)]

\* is_issue with the loop over MATRICES left out: only the Normal ratio decides
IsIssueNormalOnly(ratio, cb_ratios, t) == ratio < t

\* is_issue with the comparisons turned around
IsIssueFlipped(ratio, cb_ratios, t) ==
    ratio > t \/ \E cb_type \in DOMAIN cb_ratios : cb_ratios[cb_type] > t

\* is_issue after the inner loop over MATRICES
IsIssue(ratio, cb_ratios, t) ==
    ratio < t \/ \E cb_type \in DOMAIN cb_ratios : cb_ratios[cb_type] < t

\* any(r < threshold for r in cb_ratios.values())
IsColorblindIssue(ratio, cb_ratios, t) ==
    \E cb_type \in DOMAIN cb_ratios : cb_ratios[cb_type] < t

\* min_ratio taken from the Normal ratio alone
MinRatioNormalOnly(ratio, cb_ratios) == ratio

MinRatio(ratio, cb_ratios) ==
    Min2(Min2(ratio, cb_ratios.protanopia), Min2(cb_ratios.deuteranopia, cb_ratios.tritanopia))

\* the body of the loop "for pair in pairs"; recorded tells whether the dict is appended
EvaluatePair(pair, t) ==
    LET ratio == contrast_ratio(pair.fg, pair.bg)
        cb_ratios == CbRatios(pair)
    IN [recorded |-> IsIssue(ratio, cb_ratios, t),
        issue |-> [fg |-> pair.fg,
                   bg |-> pair.bg,
                   ratio |-> ratio,
                   cb_ratios |-> cb_ratios,
                   min_ratio |-> MinRatio(ratio, cb_ratios),
                   is_colorblind_issue |-> IsColorblindIssue(ratio, cb_ratios, t)]]

ClassifyAll(ps, t) ==
    LET evaluated == [k \in 1..Len(ps) |-> EvaluatePair(ps[k], t)]
        hits == SelectSeq(evaluated, LAMBDA e : e.recorded)
    IN [k \in 1..Len(hits) |-> hits[k].issue]

\* sorted(issues, key=lambda x: x['min_ratio']): stable, ascending.  The list is
\* split stably around the middle of its key range until a part has one key.
RECURSIVE SortRange(_, _, _)
SortRange(list, lo, hi) ==
    IF list = <<>> \/ lo >= hi THEN list
    ELSE LET mid == (lo + hi) \div 2
         IN SortRange(SelectSeq(list, LAMBDA it : it.min_ratio <= mid), lo, mid)
            \o SortRange(SelectSeq(list, LAMBDA it : it.min_ratio > mid), mid + 1, hi)

\* the sort with reverse=True
SortedByMinRatioDescending(list) ==
    LET keys == {list[i].min_ratio : i \in 1..Len(list)}
        asc == IF list = <<>> THEN <<>>
               ELSE SortRange(list, CHOOSE x \in keys : \A y \in keys : x <= y,
                                    CHOOSE x \in keys : \A y \in keys : x >= y)
    IN [i \in 1..Len(asc) |-> asc[Len(asc) + 1 - i]]

SortedByMinRatio(list) ==
    LET keys == {list[i].min_ratio : i \in 1..Len(list)}
    IN IF list = <<>> THEN <<>>
       ELSE SortRange(list, CHOOSE x \in keys : \A y \in keys : x <= y,
                            CHOOSE x \in keys : \A y \in keys : x >= y)

\* the sort without the [:15] slice
RankWithoutCut(list) == SortedByMinRatio(list)

\* sorted(issues, key=...)[:15]
RankAndTruncate(list) == Prefix(SortedByMinRatio(list), IssueCap)

\* 10 * round(max(0, 100 - (num_issues / max(1, total_pairs)) * 100), 1)
contrast_score(num_issues, total_pairs) ==
    LET d == Max2(1, total_pairs)
    IN Max2(0, (2 * 1000 * (d - num_issues) + d) \div (2 * d))

(***************************************************************************)
(* Inputs of the analysis run.                                             *)
(***************************************************************************)
\* values of the sidebar selectbox, times 100
Thresholds == {450, 300, 700}
DefaultThreshold == 450

MaxPage == 2
MaxLong == 25
MinLong == 3

\* colour values a page may contain: well-formed hex in several spellings,
\* named colours, hex strings of 4, 5 and 8 digits, an out-of-range rgb()
\* and a value that is no colour
PageTokens ==
    {
     <<"#", "7", "7", "7", "7", "7", "7">>,
     <<"#", "8", "8", "8", "8", "8", "8">>,
     <<"#", "f", "f", "f">>,
     <<"b", "l", "a", "c", "k">>,
     <<"#", "0", "0", "0", "0", "0", "0">>,
     <<"g", "r", "e", "e", "n">>,
     <<"#", "C", "C", "3", "3", "8", "0">>,
     <<"#", "A", "B", "C", "D">>,
     <<"#", "A", "B", "C", "D", "E">>,
     <<"#", "A", "A", "B", "B", "C", "C", "D", "D">>,
     <<"r", "g", "b", "(", "3", "0", "0", ",", "0", ",", "0", ")">>,
     <<"n", "o", "t", "a", "c", "o", "l", "o", "r">>
    }

\* i-th colour value of a long page: black, green and white by name or short
\* hex, then a ramp of distinct grays #0A0A0A, #141414, ...
LongToken(i) ==
    IF i = 1 THEN <<"b", "l", "a", "c", "k">>
    ELSE IF i = 2 THEN <<"g", "r", "e", "e", "n">>
    ELSE IF i = 3 THEN <<"#", "f", "f", "f">>
    ELSE LET g == Format02X((10 * (i - 3)) % 256)
         IN <<"#">> \o g \o g \o g

ShortPages == UNION {[1..n -> PageTokens] : n \in 0..MaxPage}
LongPages == {[i \in 1..n |-> LongToken(i)] : n \in MinLong..MaxLong}

\* values that yield no palette entry: no colour at all, an out-of-range
\* rgb() (7 hex digits after normalize_hex) and an 8-digit hex
InvalidTokens ==
    {<<"n", "o", "t", "a", "c", "o", "l", "o", "r">>,
     <<"r", "g", "b", "(", "3", "0", "0", ",", "0", ",", "0", ")">>,
     <<"#", "A", "A", "B", "B", "C", "C", "D", "D">>}

MaxFaulty == 3

\* a page of valid colour values with one invalid value at position k
FaultyPages ==
    UNION {{[i \in 1..(n + 1) |-> IF i < k THEN LongToken(i) ELSE IF i = k THEN b ELSE LongToken(i - 1)] :
               k \in 1..(n + 1), b \in InvalidTokens} : n \in 2..MaxFaulty}

Pages == ShortPages \cup LongPages \cup FaultyPages

EmptyData == [issues |-> <<>>, pairs |-> <<>>, total_pairs |-> 0, num_issues |-> 0, colors |-> <<>>]

(***************************************************************************)
(* The analysis run: one script run of app.py with the Analyze button      *)
(* pressed, from the fetched page to the score breakdown of the results    *)
(* view.  pc is the position in the script.                                *)
(***************************************************************************)
\* the colour functions and compute_score_breakdown have not been called
ColorIdle == colorA = <<>> /\ colorB = <<>> /\ ratios = <<>> /\ best = Unset
ScoreIdle == score_in = <<>> /\ score_out = <<>>

\* a fresh session, fetch_website_content and export_analysis_json not called
SessionIdle ==
    /\ url = <<>> /\ analysis = <<>> /\ contrast_chart = Unset
    /\ readability_local = <<>> /\ shown = <<>> /\ heatmap = <<>>
FetchIdle == direct = "none" /\ proxy = "none" /\ requests_made = <<>> /\ fetched = <<>>
ExportIdle == export_in = <<>> /\ export_out = <<>>

RunInit ==
    /\ mode = "run"
    /\ raw = <<>> /\ hx = Unset /\ hx2 = Unset
    /\ pc = "idle"
    /\ page = <<>>
    /\ threshold = DefaultThreshold
    /\ colors = <<>>
    /\ cleaned_colors = <<>>
    /\ pairs = <<>>
    /\ issues = <<>>
    /\ pass = 1
    /\ data = EmptyData
    /\ contrast = 1000
    /\ ColorIdle /\ ScoreIdle /\ SessionIdle /\ FetchIdle /\ ExportIdle

\* st.selectbox("WCAG Contrast Standard", ...)
SelectThreshold(t) ==
    /\ mode = "run" /\ pc = "idle"
    /\ t # threshold
    /\ threshold' = t
    /\ UNCHANGED <<mode, normVars, colorVars, scoreVars, pc, page, colors, cleaned_colors, pairs, issues, pass, data, contrast, sessionVars, fetchVars, exportVars>>

\* analyze_btn pressed; requests.get returns a page whose colour values are p
Analyze(p) ==
    /\ mode = "run" /\ pc = "idle"
    /\ page' = p
    /\ pc' = "extract"
    /\ UNCHANGED <<mode, normVars, colorVars, scoreVars, threshold, colors, cleaned_colors, pairs, issues, pass, data, contrast, sessionVars, fetchVars, exportVars>>

\* Step 2: colors = extract_colors_from_html_css(html, base_url=url)
ExtractColors ==
    /\ mode = "run" /\ pc = "extract"
    /\ colors' = extract_colors_from_html_css(page)
    /\ pc' = "clean"
    /\ UNCHANGED <<mode, normVars, colorVars, scoreVars, page, threshold, cleaned_colors, pairs, issues, pass, data, contrast, sessionVars, fetchVars, exportVars>>

\* Step 5: the cleaned_colors loop and cleaned_colors = cleaned_colors[:20]
CleanColors ==
    /\ mode = "run" /\ pc = "clean"
    /\ cleaned_colors' = Prefix(CleanColorList(colors), AnalysisCap)
    /\ pc' = "pairs"
    /\ UNCHANGED <<mode, normVars, colorVars, scoreVars, page, threshold, colors, pairs, issues, pass, data, contrast, sessionVars, fetchVars, exportVars>>

GeneratePairs ==
    /\ mode = "run" /\ pc = "pairs"
    /\ pairs' = GeneratePairList(cleaned_colors)
    /\ pass' = 1
    /\ pc' = "classify"
    /\ UNCHANGED <<mode, normVars, colorVars, scoreVars, page, threshold, colors, cleaned_colors, issues, data, contrast, sessionVars, fetchVars, exportVars>>

\* issues = []; for pair in pairs: ...   (the loop occurs twice in the handler)
ClassifyPairs ==
    /\ mode = "run" /\ pc = "classify"
    /\ issues' = ClassifyAll(pairs, threshold)
    /\ pc' = "rank"
    /\ UNCHANGED <<mode, normVars, colorVars, scoreVars, page, threshold, colors, cleaned_colors, pairs, pass, data, contrast, sessionVars, fetchVars, exportVars>>

\* issues = sorted(issues, key=lambda x: x['min_ratio'])[:15] and the data[...] assignments
RankIssues ==
    /\ mode = "run" /\ pc = "rank"
    /\ issues' = RankAndTruncate(issues)
    /\ data' = [issues |-> issues',
                pairs |-> pairs,
                total_pairs |-> Len(pairs),
                num_issues |-> Len(issues'),
                colors |-> cleaned_colors]
    /\ IF pass = 1
       THEN pass' = 2 /\ pc' = "classify"
       ELSE pass' = pass /\ pc' = "results"
    /\ UNCHANGED <<mode, normVars, colorVars, scoreVars, page, threshold, colors, cleaned_colors, pairs, contrast, sessionVars, fetchVars, exportVars>>

\* results view, Score Breakdown tab: compute_score_breakdown(len(issues), len(pairs), ...)
ShowResults ==
    /\ mode = "run" /\ pc = "results"
    /\ contrast' = contrast_score(Len(data.issues), Len(data.pairs))
    /\ pc' = "done"
    /\ UNCHANGED <<mode, normVars, colorVars, scoreVars, page, threshold, colors, cleaned_colors, pairs, issues, pass, data, sessionVars, fetchVars, exportVars>>

\* the script run ends; its locals are gone when the next run starts
Rerun ==
    /\ mode = "run" /\ pc = "done"
    /\ pc' = "idle"
    /\ page' = <<>>
    /\ colors' = <<>>
    /\ cleaned_colors' = <<>>
    /\ pairs' = <<>>
    /\ issues' = <<>>
    /\ pass' = 1
    /\ data' = EmptyData
    /\ contrast' = 1000
    /\ UNCHANGED <<mode, normVars, colorVars, scoreVars, threshold, sessionVars, fetchVars, exportVars>>

Init == RunInit

Next ==
    \/ \E t \in Thresholds : SelectThreshold(t)
    \/ \E p \in Pages : Analyze(p)
    \/ ExtractColors
    \/ CleanColors
    \/ GeneratePairs
    \/ ClassifyPairs
    \/ RankIssues
    \/ ShowResults
    \/ Rerun

Spec == Init /\ [][Next]_vars

(***************************************************************************)
(* normalize_hex as a function of its argument: the raw string is drawn    *)
(* from RawStrings, normalised, and the result is normalised again (the    *)
(* colour is exchanged as the string normalize_hex returned).              *)
(***************************************************************************)
MaxHexLen == 9

HexAlphabet == {"a", "7"}
HexRaws == {<<"#">> \o s : s \in UNION {[1..n -> HexAlphabet] : n \in 0..MaxHexLen}}

ChannelTokens ==
    {
     <<"0">>,
     <<"2", "5", "5">>,
     <<"2", "5", "6">>,
     <<"3", "0", "0">>,
     <<"-", "5">>,
     <<"1", ".", "9">>,
     <<" ", "1", "2", " ">>,
     <<"6", "5", "5", "3", "6">>,
     <<"x">>
    }

RgbRaws ==
    {<<"r", "g", "b", "(">> \o a \o <<",">> \o b \o <<",">> \o c \o <<")">> :
        a \in ChannelTokens, b \in ChannelTokens, c \in ChannelTokens}
    \cup
    {<<"r", "g", "b", "a", "(">> \o a \o <<",">> \o b \o <<",">> \o c \o <<",", "0", ".", "5", ")">> :
        a \in ChannelTokens, b \in ChannelTokens, c \in ChannelTokens}

OtherRaws ==
    {
     <<"r", "e", "d">>,
     <<"R", "E", "D">>,
     <<" ", "G", "r", "e", "y", " ">>,
     <<"b", "l", "a", "c", "k">>,
     <<"w", "h", "i", "t", "e">>,
     <<"b", "l", "u", "e">>,
     <<"g", "r", "e", "e", "n">>,
     <<"g", "r", "a", "y">>,
     <<"y", "e", "l", "l", "o", "w">>,
     <<"n", "o", "t", "a", "c", "o", "l", "o", "r">>,
     <<>>,
     <<" ", " ", " ">>,
     <<"#", "a", "7", "g">>,
     <<"#", "a", "7", "a", " ", "g", "1">>,
     <<" ", "#", "A", "7", "a", "7", "a", "7", " ">>,
     <<"r", "g", "b", "(", "1", ",", "2", ")">>,
     <<"r", "g", "b", "(", ")">>,
     <<"r", "g", "b", "(", "1", ",", "2", ",", "3">>
    }

RawStrings == HexRaws \cup RgbRaws \cup OtherRaws

NormInit ==
    /\ mode = "norm"
    /\ raw \in RawStrings
    /\ hx = Unset /\ hx2 = Unset
    /\ pc = "idle"
    /\ page = <<>>
    /\ threshold = DefaultThreshold
    /\ colors = <<>>
    /\ cleaned_colors = <<>>
    /\ pairs = <<>>
    /\ issues = <<>>
    /\ pass = 1
    /\ data = EmptyData
    /\ contrast = 1000
    /\ ColorIdle /\ ScoreIdle /\ SessionIdle /\ FetchIdle /\ ExportIdle

\* hx = normalize_hex(m)
Normalize ==
    /\ mode = "norm" /\ hx = Unset
    /\ hx' = normalize_hex(raw)
    /\ UNCHANGED <<mode, raw, hx2, runVars, colorVars, scoreVars, sessionVars, fetchVars, exportVars>>

\* the returned string is given to normalize_hex again
Renormalize ==
    /\ mode = "norm" /\ hx # Unset /\ hx # None /\ hx2 = Unset
    /\ hx2' = normalize_hex(hx)
    /\ UNCHANGED <<mode, raw, hx, runVars, colorVars, scoreVars, sessionVars, fetchVars, exportVars>>

NormNext == Normalize \/ Renormalize

SpecNormalize == NormInit /\ [][NormNext]_vars

(***************************************************************************)
(* Properties.                                                             *)
(***************************************************************************)
\* a serialized Color: '#' followed by exactly six uppercase hex digits
IsCanonical(c) ==
    /\ Len(c) = 7
    /\ c[1] = "#"
    /\ \A i \in 2..7 : IndexOf(c[i], HexUpper) > 0

Distinct(s) == \A i, j \in 1..Len(s) : i # j => s[i] # s[j]

AfterPairs == pc \in {"classify", "rank", "results", "done"}

\* the entry of the issue list for the pair, if any
Recorded(list, pair) == \E i \in 1..Len(list) : list[i].fg = pair.fg /\ list[i].bg = pair.bg

BelowInSomeMode(pair, t) ==
    \/ contrast_ratio(pair.fg, pair.bg) < t
    \/ colorblind_contrast_ratio(pair.fg, pair.bg, "protanopia") < t
    \/ colorblind_contrast_ratio(pair.fg, pair.bg, "deuteranopia") < t
    \/ colorblind_contrast_ratio(pair.fg, pair.bg, "tritanopia") < t

C2_FlagIffColorblindSpecific ==
    pc \in {"rank", "results", "done"} =>
        \A i \in 1..Len(issues) :
            issues[i].is_colorblind_issue <=>
                /\ issues[i].ratio >= threshold
                /\ \E cb_type \in DOMAIN issues[i].cb_ratios : issues[i].cb_ratios[cb_type] < threshold

\* each ordered pair of distinct positions of cs occurs exactly once in ps
EachOrderedPairOnce(ps, cs) ==
    \A a, b \in 1..Len(cs) :
        a # b => Cardinality({k \in 1..Len(ps) : ps[k].fg = cs[a] /\ ps[k].bg = cs[b]}) = 1

ValidPalette(cs) == Distinct(cs) /\ \A i \in 1..Len(cs) : IsCanonical(cs[i])

\* C3 as stated: a palette of n distinct colours, 2 <= n <= 24, yields exactly
\* n*(n-1) pairs, each ordered pair of distinct colours exactly once.
C3_PairCountUpTo24 ==
    (pc = "classify" /\ ValidPalette(colors) /\ Len(colors) >= 2 /\ Len(colors) <= PaletteCap) =>
        /\ Len(pairs) = Len(colors) * (Len(colors) - 1)
        /\ EachOrderedPairOnce(pairs, colors)

\* C3 amended: a palette of n distinct colours yields n*(n-1) pairs, each
\* ordered pair exactly once, for 2 <= n <= 20; a palette of 21 to 24 colours
\* yields the 380 ordered pairs of its first 20 colours.
C3_PairCountUpTo20 ==
    (pc = "classify" /\ ValidPalette(colors) /\ Len(colors) >= 2) =>
        LET used == Prefix(colors, AnalysisCap)
        IN /\ Len(pairs) = Len(used) * (Len(used) - 1)
           /\ EachOrderedPairOnce(pairs, used)
           /\ \A k \in 1..Len(pairs) : \E a, b \in 1..Len(used) :
                 a # b /\ pairs[k].fg = used[a] /\ pairs[k].bg = used[b]

\* C3 witness: pairs were generated from a palette of exactly 20 distinct colours.
C3_Witness ==
    /\ pc = "classify"
    /\ ValidPalette(colors)
    /\ Len(colors) = AnalysisCap
    /\ Len(pairs) = AnalysisCap * (AnalysisCap - 1)

\* C4: the reported (ranked, truncated) issue list holds no two entries (A,B)
\* and (B,A) for the same two colours.
C4_NoMirroredIssues ==
    pc \in {"results", "done"} =>
        \A i, j \in 1..Len(data.issues) :
            ~(data.issues[i].fg = data.issues[j].bg /\ data.issues[i].bg = data.issues[j].fg)

\* C5: every colour evaluated in a contrast pair is a well-formed Color; no
\* string for which hex_to_rgb falls back to its (0,0,0) default is evaluated.
C5_NoSubstitutedColor ==
    AfterPairs =>
        \A k \in 1..Len(pairs) :
            /\ IsCanonical(pairs[k].fg) /\ ~HexToRgbRaises(pairs[k].fg)
            /\ IsCanonical(pairs[k].bg) /\ ~HexToRgbRaises(pairs[k].bg)

\* the rgb()/rgba() argument parses and one of its three channels is outside 0..255
RgbOutOfRange(h0) ==
    LET m == RgbGroup(Strip(h0))
        parts == IF m = None THEN <<>> ELSE Split(m, ",")
    IN /\ m # None
       /\ Len(parts) >= 3
       /\ \A i \in 1..3 : ParseNumber(parts[i]).ok
       /\ \E i \in 1..3 : ParseNumber(parts[i]).val < 0 \/ ParseNumber(parts[i]).val > 255

\* C6: normalize returns nothing for an rgb()/rgba() input with a channel
\* outside [0,255].
C6_OutOfRangeRejected ==
    (hx # Unset /\ RgbOutOfRange(raw)) => hx = None

\* C7: every value normalize returns is '#' followed by exactly six uppercase
\* hex digits.
C7_SixDigitOutput ==
    (hx # Unset /\ hx # None) => IsCanonical(hx)

\* C8: normalising the returned string again succeeds and returns the same value.
C8_RoundTrip ==
    hx2 # Unset => hx2 = hx

ReportedCount(t) == Len(RankAndTruncate(ClassifyAll(pairs, t)))

\* C10: for the palette of the run, the reported issue count (after truncation
\* to the cap) at any higher threshold is at least the count of this run, and
\* at any lower threshold at most the count of this run.
C10_CountMonotoneInThreshold ==
    pc = "results" =>
        \A t \in Thresholds :
            /\ t >= threshold => ReportedCount(t) >= data.num_issues
            /\ t <= threshold => ReportedCount(t) <= data.num_issues

\* C10 witness: a completed classification whose count is positive and grows
\* strictly when the threshold is raised to 7.0.
C10_Witness ==
    /\ pc = "results"
    /\ threshold = 300
    /\ data.num_issues > 0
    /\ ReportedCount(700) > data.num_issues

(***************************************************************************)
(* The analysis run with a caller-supplied threshold: the classification   *)
(* loop takes whatever value the name threshold holds; it is the sidebar   *)
(* selectbox that restricts it to 3.0, 4.5 and 7.0 in app.py.              *)
(***************************************************************************)
\* thresholds a caller may hand to the classification loop, times 100
CallerThresholds == Thresholds \cup {0, -100}

SupplyThreshold(t) ==
    /\ mode = "run" /\ pc = "idle"
    /\ t # threshold
    /\ threshold' = t
    /\ UNCHANGED <<mode, normVars, colorVars, scoreVars, pc, page, colors, cleaned_colors, pairs, issues, pass, data, contrast, sessionVars, fetchVars, exportVars>>

CallerNext ==
    \/ \E t \in CallerThresholds : SupplyThreshold(t)
    \/ \E p \in ShortPages : Analyze(p)
    \/ ExtractColors
    \/ CleanColors
    \/ GeneratePairs
    \/ ClassifyPairs
    \/ RankIssues
    \/ ShowResults
    \/ Rerun

SpecCaller == Init /\ [][CallerNext]_vars

C12_PaletteUnique ==
    pc \in {"pairs", "classify", "rank", "results", "done"} =>
        /\ Len(colors) <= PaletteCap /\ Len(cleaned_colors) <= PaletteCap
        /\ \A i, j \in 1..Len(colors) :
              i # j => hex_to_rgb(colors[i]) # hex_to_rgb(colors[j])
        /\ \A i, j \in 1..Len(cleaned_colors) :
              i # j => hex_to_rgb(cleaned_colors[i]) # hex_to_rgb(cleaned_colors[j])
        /\ (\E a \in 1..Len(page) : normalize_hex(page[a]) # None) =>
              \A i, j \in 1..Len(colors) :
                  i < j => \E a, b \in 1..Len(page) :
                              /\ a < b
                              /\ normalize_hex(page[a]) = colors[i]
                              /\ normalize_hex(page[b]) = colors[j]
                              /\ \A c \in 1..(b - 1) : normalize_hex(page[c]) # colors[j]

\* what is left of C12 on a page whose values all normalise to '#RRGGBB'
C12_UniqueAmongCanonical ==
    (pc \in {"pairs", "classify", "rank", "results", "done"}
        /\ \A i \in 1..Len(colors) : IsCanonical(colors[i])) =>
        /\ Len(colors) <= PaletteCap
        /\ cleaned_colors = Prefix(colors, AnalysisCap)
        /\ \A i, j \in 1..Len(colors) :
              i # j => hex_to_rgb(colors[i]) # hex_to_rgb(colors[j])

\* position of the issue's pair in the generated pair list
GenerationIndex(it) == CHOOSE k \in 1..Len(pairs) : pairs[k].fg = it.fg /\ pairs[k].bg = it.bg

\* C13: the ranked issue list is ascending in min_ratio, and issues with equal
\* min_ratio are in pair-generation order.
C13_RankedStable ==
    pc \in {"results", "done"} =>
        \A i, j \in 1..Len(data.issues) :
            i < j =>
                /\ data.issues[i].min_ratio <= data.issues[j].min_ratio
                /\ data.issues[i].min_ratio = data.issues[j].min_ratio
                      => GenerationIndex(data.issues[i]) < GenerationIndex(data.issues[j])

\* C13 witness: a ranked list with a tie in min_ratio and a strictly larger
\* min_ratio after it, produced from a list that was not already in order.
C13_Witness ==
    /\ pc = "results"
    /\ \E i, j \in 1..Len(data.issues) :
          i < j /\ data.issues[i].min_ratio = data.issues[j].min_ratio
    /\ \E i, j \in 1..Len(data.issues) :
          /\ data.issues[i].min_ratio < data.issues[j].min_ratio
          /\ GenerationIndex(data.issues[i]) > GenerationIndex(data.issues[j])

White == <<"#", "F", "F", "F", "F", "F", "F">>
Black == <<"#", "0", "0", "0", "0", "0", "0">>

\* C19: palette [#FFFFFF, #000000] at threshold 4.5 gives exactly 2 pairs, both
\* with ratio 21.0 and no deficiency-mode ratio below 4.5, zero issues and
\* contrast score 100.
C19_WhiteOnBlack ==
    (pc = "done" /\ colors = <<White, Black>> /\ threshold = 450) =>
        /\ data.total_pairs = 2
        /\ \A k \in 1..Len(data.pairs) :
              /\ contrast_ratio(data.pairs[k].fg, data.pairs[k].bg) = 2100
              /\ \A i \in 1..3 :
                    colorblind_contrast_ratio(data.pairs[k].fg, data.pairs[k].bg, CbTypes[i]) >= 450
        /\ data.num_issues = 0
        /\ contrast = 1000

\* C19 witness: the run on a page holding white and black has completed at 4.5.
C19_Witness ==
    /\ pc = "done"
    /\ page = <<<<"#", "f", "f", "f">>, <<"b", "l", "a", "c", "k">>>>
    /\ colors = <<White, Black>>
    /\ threshold = 450
    /\ data.total_pairs = 2

\* the valid colours of the extracted palette that lie within the analysis cap
ValidWithinCap ==
    {colors[i] : i \in {p \in 1..Len(colors) : p <= AnalysisCap /\ IsCanonical(colors[p])}}

InPage(toks) == \E i \in 1..Len(page) : page[i] \in toks

RunIdle ==
    /\ pc = "idle" /\ page = <<>> /\ threshold = DefaultThreshold
    /\ colors = <<>> /\ cleaned_colors = <<>> /\ pairs = <<>> /\ issues = <<>>
    /\ pass = 1 /\ data = EmptyData /\ contrast = 1000
NormIdle == raw = <<>> /\ hx = Unset /\ hx2 = Unset

\* best_text_color with white > black in place of white >= black
best_text_color_Strict(bg_hex) ==
    IF bg_hex = <<>> THEN <<"#", "0", "0", "0", "0", "0", "0">>
    ELSE LET white == contrast_ratio(bg_hex, <<"#", "F", "F", "F", "F", "F", "F">>)
             black == contrast_ratio(bg_hex, <<"#", "0", "0", "0", "0", "0", "0">>)
         IN IF white > black THEN <<"#", "F", "F", "F", "F", "F", "F">>
            ELSE <<"#", "0", "0", "0", "0", "0", "0">>

best_text_color(bg_hex) ==
    IF bg_hex = <<>> THEN <<"#", "0", "0", "0", "0", "0", "0">>
    ELSE LET white == contrast_ratio(bg_hex, <<"#", "F", "F", "F", "F", "F", "F">>)
             black == contrast_ratio(bg_hex, <<"#", "0", "0", "0", "0", "0", "0">>)
         IN IF white >= black THEN <<"#", "F", "F", "F", "F", "F", "F">>
            ELSE <<"#", "0", "0", "0", "0", "0", "0">>

\* two-digit channel values the colour arguments are built from
ChannelHex == {<<"0", "0">>, <<"3", "3">>, <<"8", "0">>, <<"F", "F">>}

\* a colour whose rounded ratios against white and against black are both 4.58
TieColor == <<"#", "0", "2", "8", "9", "0", "0">>

\* arguments: '#RRGGBB' strings, and two strings hex_to_rgb cannot parse
ColorArgs ==
    {<<"#">> \o r \o g \o b : r \in ChannelHex, g \in ChannelHex, b \in ChannelHex}
        \cup {<<"#", "C", "C", "3", "3", "8", "0">>, TieColor, <<"#", "A", "B", "C", "D">>, <<>>}

ColorInit ==
    /\ mode = "color"
    /\ NormIdle /\ RunIdle /\ ScoreIdle /\ SessionIdle /\ FetchIdle /\ ExportIdle
    /\ colorA \in ColorArgs /\ colorB \in ColorArgs
    /\ ratios = <<>> /\ best = Unset

\* contrast_ratio(colorA, colorB) and colorblind_contrast_ratio(colorA, colorB, cb_type)
MeasureRatios ==
    /\ mode = "color" /\ ratios = <<>>
    /\ ratios' = <<[normal |-> contrast_ratio(colorA, colorB),
                  protanopia |-> colorblind_contrast_ratio(colorA, colorB, "protanopia"),
                  deuteranopia |-> colorblind_contrast_ratio(colorA, colorB, "deuteranopia"),
                  tritanopia |-> colorblind_contrast_ratio(colorA, colorB, "tritanopia")]>>
    /\ UNCHANGED <<mode, normVars, runVars, scoreVars, colorA, colorB, best, sessionVars, fetchVars, exportVars>>

\* best_text_color(colorB)
PickTextColor ==
    /\ mode = "color" /\ best = Unset
    /\ best' = best_text_color(colorB)
    /\ UNCHANGED <<mode, normVars, runVars, scoreVars, colorA, colorB, ratios, sessionVars, fetchVars, exportVars>>

ColorNext == MeasureRatios \/ PickTextColor

SpecColor == ColorInit /\ [][ColorNext]_vars

\* C14: contrast_ratio(a, b) = contrast_ratio(b, a), and contrast_ratio(a, a) = 1.0.
C14_SymmetricAndUnit ==
    ratios # <<>> =>
        /\ ratios[1].normal = contrast_ratio(colorB, colorA)
        /\ colorA = colorB => ratios[1].normal = 100

\* C14 witness: the ratio of two colours of different luminance, the darker
\* one first, has been computed.
C14_Witness ==
    /\ ratios # <<>>
    /\ colorA = <<"#", "3", "3", "0", "0", "8", "0">> /\ colorB = <<"#", "F", "F", "8", "0", "3", "3">>
    /\ ratios[1].normal > 100

\* C15: every ratio of a pair, Normal and each deficiency mode, is in [1.0, 21.0].
C15_RatioRange ==
    ratios # <<>> =>
        \A m \in {"normal", "protanopia", "deuteranopia", "tritanopia"} :
            ratios[1][m] >= 100 /\ ratios[1][m] <= 2100

\* C15 witness: both ends of the range are met, 21.0 for white on black in
\* every mode.
C15_Witness ==
    /\ ratios # <<>>
    /\ colorA = White /\ colorB = Black
    /\ \A m \in {"normal", "protanopia", "deuteranopia", "tritanopia"} : ratios[1][m] = 2100

\* C16: for a colour bg, best_text_color(bg) is black or white, the one with
\* the higher contrast_ratio against bg, white on a tie; black for #FFFF00.
C16_BestTextColor ==
    (best # Unset /\ IsCanonical(colorB)) =>
        /\ best \in {White, Black}
        /\ contrast_ratio(colorB, White) > contrast_ratio(colorB, Black) => best = White
        /\ contrast_ratio(colorB, White) < contrast_ratio(colorB, Black) => best = Black
        /\ contrast_ratio(colorB, White) = contrast_ratio(colorB, Black) => best = White
        /\ colorB = <<"#", "F", "F", "F", "F", "0", "0">> => best = Black

\* C16 witness: the tie case has been decided, for white.
C16_Witness ==
    /\ best = White
    /\ colorB = TieColor
    /\ contrast_ratio(colorB, White) = 458 /\ contrast_ratio(colorB, Black) = 458

(***************************************************************************)
(* compute_score_breakdown, in its two definitions:                        *)
(* modules/accessibility_check.py (issue percentage weighted by 0.6) and   *)
(* modules/accessibility_enhancements.py (the one app.py imports).         *)
(* Scores are exact fractions over one denominator: a returned record      *)
(* holds den and, for every score x, the integer x * den.                  *)
(***************************************************************************)
\* truncation in place of rounding
RoundDown(p, q) == p \div q

\* round(p / q) for q > 0, halves to the even neighbour; with the arguments
\* below an exact half needs total_pairs to be a multiple of 8
RoundHalfEven(p, q) ==
    LET f == p \div q
        r == p % q
    IN IF 2 * r < q THEN f
       ELSE IF 2 * r > q THEN f + 1
       ELSE IF f % 2 = 0 THEN f ELSE f + 1

\* den for the arguments: 50 for text_length / 1000 * 20, total_pairs for the
\* issue share, and a multiple of 10 for values rounded to one decimal
ScoreDen(total_pairs) == 50 * Max2(1, total_pairs)

\* round(x, 1) of the fraction num / den, again over den
Round1(num, den) == RoundHalfEven(10 * num, den) * (den \div 10)

\* readability.get('flesch_ease'): readability is <<>> without the key, <<v>> with it
HasFlesch(readability) == readability # <<>>

\* accessibility_check.compute_score_breakdown with the factor 0.6 left out
check_compute_score_breakdown_Unweighted(num_issues, total_pairs, readability, text_length) ==
    LET den == ScoreDen(total_pairs)
        c == IF total_pairs > 0
             THEN Max2(0, 100 * den - (100 * num_issues * den) \div total_pairs)
             ELSE 100 * den
        rd == IF HasFlesch(readability)
              THEN IF readability[1] < 50 THEN 60 * den
                   ELSE IF readability[1] < 65 THEN 80 * den ELSE 100 * den
              ELSE 100 * den
        q == IF text_length < 200 THEN 50 * den
             ELSE IF text_length < 1000 THEN 75 * den ELSE 100 * den
        weighted10 == 5 * c + 3 * rd + 2 * q
    IN [den |-> den,
        unrounded |-> [contrast |-> c, readability |-> rd, content_quality |-> q, weighted10 |-> weighted10],
        breakdown |-> [contrast |-> c, readability |-> rd, content_quality |-> q],
        weighted_score |-> RoundHalfEven(weighted10, den) * (den \div 10)]

\* modules/accessibility_check.py
check_compute_score_breakdown(num_issues, total_pairs, readability, text_length) ==
    LET den == ScoreDen(total_pairs)
        \* issue_percentage * 0.6 = num_issues / total_pairs * 60
        c == IF total_pairs > 0
             THEN Max2(0, 100 * den - (60 * num_issues * den) \div total_pairs)
             ELSE 100 * den
        rd == IF HasFlesch(readability)
              THEN IF readability[1] < 50 THEN 60 * den
                   ELSE IF readability[1] < 65 THEN 80 * den ELSE 100 * den
              ELSE 100 * den
        q == IF text_length < 200 THEN 50 * den
             ELSE IF text_length < 1000 THEN 75 * den ELSE 100 * den
        weighted10 == 5 * c + 3 * rd + 2 * q
    IN [den |-> den,
        unrounded |-> [contrast |-> c, readability |-> rd, content_quality |-> q, weighted10 |-> weighted10],
        breakdown |-> [contrast |-> c, readability |-> rd, content_quality |-> q],
        weighted_score |-> RoundHalfEven(weighted10, den) * (den \div 10)]

\* modules/accessibility_enhancements.py
enhancements_compute_score_breakdown(num_issues, total_pairs, readability, text_length) ==
    LET den == ScoreDen(total_pairs)
        contrast_score_ == Max2(0, 100 * den - (100 * num_issues * den) \div Max2(1, total_pairs))
        readability_score == IF HasFlesch(readability)
                             THEN IF readability[1] > 70 THEN 95 * den
                                  ELSE IF readability[1] > 50 THEN 80 * den ELSE 60 * den
                             ELSE 70 * den
        \* text_length / 1000 * 20 = text_length / 50
        content_score == IF text_length # 0
                         THEN Min2(100 * den, text_length * (den \div 50))
                         ELSE 50 * den
        weighted10 == 5 * contrast_score_ + 3 * readability_score + 2 * content_score
    IN [den |-> den,
        unrounded |-> [contrast |-> contrast_score_, readability |-> readability_score,
                       content_quality |-> content_score, weighted10 |-> weighted10],
        breakdown |-> [contrast |-> Round1(contrast_score_, den),
                       readability |-> Round1(readability_score, den),
                       content_quality |-> Round1(content_score, den)],
        weighted_score |-> RoundHalfEven(weighted10, den) * (den \div 10)]

MaxIssues == 6
MaxPairs == 6

\* flesch_ease values on both sides of 50, 65 and 70
FleschValues == {0, 49, 50, 51, 64, 65, 70, 71, 100}
Readabilities == {<<>>} \cup {<<v>> : v \in FleschValues}

\* text lengths on both sides of 200, 1000 and 5000
TextLengths == {0, 100, 199, 200, 999, 1000, 4999, 5000, 20000}

ScoreInit ==
    /\ mode = "score"
    /\ NormIdle /\ RunIdle /\ ColorIdle /\ SessionIdle /\ FetchIdle /\ ExportIdle
    /\ score_in \in {<<[num_issues |-> n, total_pairs |-> t, readability |-> rd, text_length |-> len]>> :
                        n \in 0..MaxIssues, t \in 0..MaxPairs, rd \in Readabilities, len \in TextLengths}
    /\ score_out = <<>>

\* the call of accessibility_check.compute_score_breakdown
CheckBreakdown ==
    /\ mode = "score" /\ score_out = <<>>
    /\ score_out' = <<[module |-> "accessibility_check",
                       result |-> check_compute_score_breakdown(score_in[1].num_issues, score_in[1].total_pairs,
                                      score_in[1].readability, score_in[1].text_length)]>>
    /\ UNCHANGED <<mode, normVars, runVars, colorVars, score_in, sessionVars, fetchVars, exportVars>>

\* the call of accessibility_enhancements.compute_score_breakdown
EnhancementsBreakdown ==
    /\ mode = "score" /\ score_out = <<>>
    /\ score_out' = <<[module |-> "accessibility_enhancements",
                       result |-> enhancements_compute_score_breakdown(score_in[1].num_issues, score_in[1].total_pairs,
                                      score_in[1].readability, score_in[1].text_length)]>>
    /\ UNCHANGED <<mode, normVars, runVars, colorVars, score_in, sessionVars, fetchVars, exportVars>>

ScoreNext == CheckBreakdown \/ EnhancementsBreakdown

SpecScore == ScoreInit /\ [][ScoreNext]_vars

ScoresInRange(r) ==
    /\ \A k \in {"contrast", "readability", "content_quality"} :
          r.breakdown[k] >= 0 /\ r.breakdown[k] <= 100 * r.den
    /\ r.weighted_score >= 0 /\ r.weighted_score <= 100 * r.den

\* C18 as stated: the sub-scores and the aggregate lie in [0, 100] and the
\* aggregate equals 0.5*contrast + 0.3*readability + 0.2*content_quality.
C18_AggregateExact ==
    score_out # <<>> =>
        LET r == score_out[1].result
        IN /\ ScoresInRange(r)
           /\ 10 * r.weighted_score
                 = 5 * r.breakdown.contrast + 3 * r.breakdown.readability + 2 * r.breakdown.content_quality

\* C18 amended: the sub-scores and the aggregate lie in [0, 100]; the aggregate
\* has one decimal and is within 0.05 of 0.5*contrast + 0.3*readability +
\* 0.2*content_quality taken over the sub-scores before rounding.
C18_AggregateRounded ==
    score_out # <<>> =>
        LET r == score_out[1].result
            u == r.unrounded
        IN /\ ScoresInRange(r)
           /\ \A k \in {"contrast", "readability", "content_quality"} :
                 u[k] >= 0 /\ u[k] <= 100 * r.den
           /\ r.weighted_score % (r.den \div 10) = 0
           /\ 2 * (10 * r.weighted_score - (5 * u.contrast + 3 * u.readability + 2 * u.content_quality)) <= r.den
           /\ 2 * ((5 * u.contrast + 3 * u.readability + 2 * u.content_quality) - 10 * r.weighted_score) <= r.den

\* C18 witness: an aggregate that rounding moved down, 58.3 for 58.33...
C18_Witness ==
    /\ score_out # <<>>
    /\ score_in[1].num_issues = 1 /\ score_in[1].total_pairs = 3
    /\ LET r == score_out[1].result
       IN /\ 10 * r.weighted_score < r.unrounded.weighted10
          /\ 10 * r.weighted_score = 583 * r.den

(***************************************************************************)
(* Properties of the issue records and of the vision modes.                *)
(***************************************************************************)
AllRatios(it) == {it.ratio, it.cb_ratios.protanopia, it.cb_ratios.deuteranopia, it.cb_ratios.tritanopia}

\* C21: min_ratio of every issue is the minimum of its Normal ratio and its
\* three deficiency ratios.
C21_MinRatioIsMinimum ==
    pc \in {"rank", "results", "done"} =>
        \A k \in 1..Len(issues) :
            /\ issues[k].min_ratio \in AllRatios(issues[k])
            /\ \A x \in AllRatios(issues[k]) : issues[k].min_ratio <= x

\* C21 witness: an issue whose minimum is a deficiency ratio below the Normal ratio.
C21_Witness ==
    /\ pc = "rank"
    /\ \E k \in 1..Len(issues) :
          /\ issues[k].min_ratio < issues[k].ratio
          /\ issues[k].min_ratio = issues[k].cb_ratios.protanopia

VisionModes == {"normal", "protanopia", "deuteranopia", "tritanopia"}

\* the ratio of the pair in the given vision mode, as the loop computes it
ModeRatio(pair, m) ==
    IF m = "normal" THEN contrast_ratio(pair.fg, pair.bg)
    ELSE colorblind_contrast_ratio(pair.fg, pair.bg, m)

\* C23: for two distinct palette colours A and B both (A,B) and (B,A) are
\* generated, their ratios agree in every vision mode, and before the sort and
\* the cut one is recorded as an issue iff the other is.
C23_MirroredPairsAgree ==
    pc = "rank" =>
        \A i, j \in 1..Len(cleaned_colors) :
            (i < j /\ cleaned_colors[i] # cleaned_colors[j]) =>
                LET ab == [fg |-> cleaned_colors[i], bg |-> cleaned_colors[j]]
                    ba == [fg |-> cleaned_colors[j], bg |-> cleaned_colors[i]]
                IN /\ \E k \in 1..Len(pairs) : pairs[k] = ab
                   /\ \E k \in 1..Len(pairs) : pairs[k] = ba
                   /\ \A m \in VisionModes : ModeRatio(ab, m) = ModeRatio(ba, m)
                   /\ Recorded(issues, ab) <=> Recorded(issues, ba)

\* C23 witness: a palette with a recorded pair whose mirror is recorded too,
\* and a pair that passes in both directions.
C23_Witness ==
    /\ pc = "rank"
    /\ \E a, b \in 1..Len(issues) :
          a # b /\ issues[a].fg = issues[b].bg /\ issues[a].bg = issues[b].fg
                /\ issues[a].ratio > 100
    /\ \E k \in 1..Len(pairs) : ~Recorded(issues, pairs[k])

\* the matrix that leaves every colour as it is, in thousandths
IdentityMatrix == <<<<1000, 0, 0>>, <<0, 1000, 0>>, <<0, 0, 1000>>>>

\* C22: Normal vision is the identity simulation: the Normal ratio of a pair
\* is the ratio of the colours as they are.
C22_NormalIsIdentity ==
    ratios # <<>> =>
        /\ colorblind_transform(hex_to_rgb(colorA), IdentityMatrix) = Milli(hex_to_rgb(colorA))
        /\ colorblind_transform(hex_to_rgb(colorB), IdentityMatrix) = Milli(hex_to_rgb(colorB))
        /\ ratios[1].normal =
              RatioOfLuminances(
                  relative_luminance(colorblind_transform(hex_to_rgb(colorA), IdentityMatrix)),
                  relative_luminance(colorblind_transform(hex_to_rgb(colorB), IdentityMatrix)))

\* C22 witness: a pair whose Normal ratio differs from all three deficiency ratios.
C22_Witness ==
    /\ ratios # <<>>
    /\ colorA = <<"#", "C", "C", "3", "3", "8", "0">> /\ colorB = <<"#", "0", "0", "8", "0", "0", "0">>
    /\ \A m \in {"protanopia", "deuteranopia", "tritanopia"} : ratios[1][m] # ratios[1].normal

Achromatic(c) == IsCanonical(c) /\ hex_to_rgb(c)[1] = hex_to_rgb(c)[2] /\ hex_to_rgb(c)[2] = hex_to_rgb(c)[3]

\* C30: a colour with equal channels is unchanged by the three simulations,
\* and for a pair of such colours the three deficiency ratios equal the Normal ratio.
C30_AchromaticInvariant ==
    ratios # <<>> =>
        /\ \A c \in {colorA, colorB} :
              Achromatic(c) =>
                  \A i \in 1..3 : colorblind_transform(hex_to_rgb(c), MATRICES[CbTypes[i]]) = Milli(hex_to_rgb(c))
        /\ (Achromatic(colorA) /\ Achromatic(colorB)) =>
              \A i \in 1..3 : ratios[1][CbTypes[i]] = ratios[1].normal

\* C30 witness: the ratios of mid gray on dark gray have been computed.
C30_Witness ==
    /\ ratios # <<>>
    /\ colorA = <<"#", "8", "0", "8", "0", "8", "0">> /\ colorB = <<"#", "3", "3", "3", "3", "3", "3">>
    /\ ratios[1].normal > 100 /\ ratios[1].protanopia = ratios[1].normal

(***************************************************************************)
(* export_analysis_json of modules/accessibility_check.py: the counts of   *)
(* the 'scores' and 'compliance' sections.                                 *)
(***************************************************************************)
\* sum(1 for i in issue_list if i['ratio'] < limit)
RECURSIVE CountBelow(_, _)
CountBelow(issue_list, limit) ==
    IF issue_list = <<>> THEN 0
    ELSE (IF Head(issue_list).ratio < limit THEN 1 ELSE 0) + CountBelow(Tail(issue_list), limit)

\* the export with the two limits exchanged
export_analysis_json_Exchanged(issue_list) ==
    [contrast_issues |-> Len(issue_list),
     wcag_aa_issues |-> CountBelow(issue_list, 700),
     wcag_aaa_issues |-> CountBelow(issue_list, 450)]

\* issue_list is data.get('issues', [])
export_analysis_json(issue_list) ==
    [contrast_issues |-> Len(issue_list),
     wcag_aa_issues |-> CountBelow(issue_list, 450),
     wcag_aaa_issues |-> CountBelow(issue_list, 700)]

MaxExportIssues == 3

\* Normal ratios on both sides of 4.5 and 7.0, times 100
ExportRatios == {100, 449, 450, 699, 700, 2100}

ExportInit ==
    /\ mode = "export"
    /\ NormIdle /\ RunIdle /\ ColorIdle /\ ScoreIdle /\ SessionIdle /\ FetchIdle
    /\ export_in \in UNION {[1..n -> {[ratio |-> x] : x \in ExportRatios}] : n \in 0..MaxExportIssues}
    /\ export_out = <<>>

ExportJson ==
    /\ mode = "export" /\ export_out = <<>>
    /\ export_out' = <<export_analysis_json(export_in)>>
    /\ UNCHANGED <<mode, normVars, runVars, colorVars, scoreVars, sessionVars, fetchVars, export_in>>

ExportNext == ExportJson

SpecExport == ExportInit /\ [][ExportNext]_vars

\* C29: in the export wcag_aa_issues <= wcag_aaa_issues <= contrast_issues.
C29_ExportCountsOrdered ==
    export_out # <<>> =>
        /\ export_out[1].wcag_aa_issues <= export_out[1].wcag_aaa_issues
        /\ export_out[1].wcag_aaa_issues <= export_out[1].contrast_issues

\* C29 witness: an issue list on which the three counts are 1, 2 and 3.
C29_Witness ==
    /\ export_out # <<>>
    /\ export_in = <<[ratio |-> 2100], [ratio |-> 449], [ratio |-> 699]>>
    /\ export_out[1] = [contrast_issues |-> 3, wcag_aa_issues |-> 1, wcag_aaa_issues |-> 2]

(***************************************************************************)
(* fetch_website_content of modules/web_scraper.py.  The outcome of each   *)
(* request is chosen by the environment: "ok" (a response whose            *)
(* raise_for_status passes) or the exception raised.                       *)
(***************************************************************************)
RequestFailures == {"Timeout", "ConnectionError", "HTTPError", "RetryError"}
RequestOutcomes == {"ok"} \cup RequestFailures

\* re.sub(r'^https?://', '', url)
StripScheme(u) ==
    IF StartsWith(u, <<"h", "t", "t", "p", "s", ":", "/", "/">>) THEN SubSeq(u, 9, Len(u))
    ELSE IF StartsWith(u, <<"h", "t", "t", "p", ":", "/", "/">>) THEN SubSeq(u, 8, Len(u))
    ELSE u

\* f"https://r.jina.ai/http://{stripped}"
ProxyUrl(u) ==
    <<"h", "t", "t", "p", "s", ":", "/", "/", "r", ".", "j", "i", "n", "a", ".", "a", "i", "/",
      "h", "t", "t", "p", ":", "/", "/">> \o StripScheme(u)

\* the outer try: return r.text, or fall into the except branch
DirectResult(outcome) == IF outcome = "ok" THEN <<"r.text">> ELSE <<>>

\* the inner try giving up whatever the proxy answers
ProxyResult_GivesUp(outcome) == <<"None">>

\* the inner try: return pr.text, or print and return None
ProxyResult(outcome) == IF outcome = "ok" THEN <<"pr.text">> ELSE <<"None">>

FetchUrls ==
    {<<"h", "t", "t", "p", "s", ":", "/", "/", "a", ".", "i", "o">>,
     <<"h", "t", "t", "p", ":", "/", "/", "b", ".", "i", "o", "/", "x">>,
     <<"c", ".", "i", "o">>}

FetchInit ==
    /\ mode = "fetch"
    /\ NormIdle /\ RunIdle /\ ColorIdle /\ ScoreIdle /\ ExportIdle
    /\ url \in FetchUrls
    /\ analysis = <<>> /\ contrast_chart = Unset /\ readability_local = <<>>
    /\ shown = <<>> /\ heatmap = <<>>
    /\ direct \in RequestOutcomes /\ proxy \in RequestOutcomes
    /\ requests_made = <<>> /\ fetched = <<>>

\* r = session.get(url, ...); r.raise_for_status(); return r.text
FetchDirect ==
    /\ mode = "fetch" /\ requests_made = <<>>
    /\ requests_made' = <<url>>
    /\ fetched' = DirectResult(direct)
    /\ UNCHANGED <<mode, normVars, runVars, colorVars, scoreVars, sessionVars, exportVars, direct, proxy>>

\* except Exception: pr = session.get(proxy, ...); pr.raise_for_status(); return pr.text
FetchProxy ==
    /\ mode = "fetch" /\ Len(requests_made) = 1 /\ fetched = <<>>
    /\ requests_made' = Append(requests_made, ProxyUrl(url))
    /\ fetched' = ProxyResult(proxy)
    /\ UNCHANGED <<mode, normVars, runVars, colorVars, scoreVars, sessionVars, exportVars, direct, proxy>>

FetchNext == FetchDirect \/ FetchProxy

SpecFetch == FetchInit /\ [][FetchNext]_vars

\* C28: the proxy is requested only after the direct request failed; the text
\* of the first successful response is returned; None is returned iff both
\* requests fail.
C28_ProxyOnlyAfterDirectFailure ==
    /\ Len(requests_made) <= 2
    /\ Len(requests_made) = 2 =>
          /\ requests_made[1] = url /\ requests_made[2] = ProxyUrl(url)
          /\ direct \in RequestFailures
    /\ fetched # <<>> =>
          /\ direct = "ok" => fetched = <<"r.text">> /\ Len(requests_made) = 1
          /\ (direct # "ok" /\ proxy = "ok") => fetched = <<"pr.text">>
          /\ fetched = <<"None">> <=> (direct \in RequestFailures /\ proxy \in RequestFailures)

\* C28 witness: the direct request timed out and the proxy answered.
C28_Witness ==
    /\ direct = "Timeout" /\ proxy = "ok"
    /\ Len(requests_made) = 2
    /\ fetched = <<"pr.text">>

(***************************************************************************)
(* One browser session of app.py: script runs with the Analyze button      *)
(* pressed, one after the other.  st.session_state.analysis outlives a     *)
(* script run, the handler's locals do not.  What requests.get and         *)
(* plot_lowest_contrast_pairs do is chosen by the environment.             *)
(***************************************************************************)
\* urlparse(url).netloc for a url that starts with http:// or https://
Netloc(u) ==
    LET rest == StripScheme(u)
        stops == {i \in 1..Len(rest) : rest[i] \in {"/", "?", "#"}}
    IN IF stops = {} THEN rest
       ELSE SubSeq(rest, 1, (CHOOSE i \in stops : \A j \in stops : i <= j) - 1)

\* validate_url(url)[0]
validate_url(u) ==
    IF u = <<>> THEN FALSE
    ELSE IF ~(StartsWith(u, <<"h", "t", "t", "p", ":", "/", "/">>)
              \/ StartsWith(u, <<"h", "t", "t", "p", "s", ":", "/", "/">>)) THEN FALSE
    ELSE Netloc(u) # <<>>

\* compute_readability(text): text is given by its stripped length and by the
\* Flesch reading ease its words yield; <<>> stands for None
compute_readability(text) ==
    IF text.length < 20 THEN [flesch_ease |-> <<>>, fk_grade |-> <<>>]
    ELSE [flesch_ease |-> <<text.flesch>>, fk_grade |-> <<>>]

\* compute_overall_score(num_issues, total_pairs, flesch, fk_grade)
compute_overall_score(num_issues, total_pairs, flesch, fk_grade) ==
    LET s1 == 100 - Min2(60, num_issues * 3)
        s2 == IF flesch # <<>>
              THEN IF flesch[1] < 50 THEN s1 - 10
                   ELSE IF flesch[1] < 65 THEN s1 - 5 ELSE s1
              ELSE s1
    IN Max2(0, Min2(100, s2))

\* dict.get(key, default)
DictGet(dict, key, default) == IF key \in DOMAIN dict THEN dict[key] ELSE default

\* generate_simple_heatmap: readability_score / 100.0 raises TypeError for None
generate_simple_heatmap(readability_score) ==
    IF readability_score = <<>>
    THEN [generated |-> FALSE, readability_score |-> readability_score]
    ELSE [generated |-> TRUE, readability_score |-> readability_score]

\* the heatmap section of the results view
HeatmapSection(stored) ==
    generate_simple_heatmap(DictGet(stored.readability, "flesch_ease", <<50>>))

SessionUrls ==
    {<<>>,
     <<"a", ".", "i", "o">>,
     <<"h", "t", "t", "p", ":", "/", "/">>,
     <<"h", "t", "t", "p", "s", ":", "/", "/", "a", ".", "i", "o">>}

\* the fetched documents: colour values in document order, and the text
SessionPages ==
    {<<<<"#", "f", "f", "f">>, <<"b", "l", "a", "c", "k">>>>,
     <<<<"#", "7", "7", "7", "7", "7", "7">>, <<"#", "8", "8", "8", "8", "8", "8">>>>,
     [i \in 1..8 |-> LongToken(i)]}
SessionTexts ==
    {[length |-> 0, flesch |-> 0], [length |-> 500, flesch |-> 40],
     [length |-> 500, flesch |-> 60], [length |-> 5000, flesch |-> 80]}
SessionDocs == {[colors |-> p, text |-> t] : p \in SessionPages, t \in SessionTexts}

SessionInit ==
    /\ mode = "session"
    /\ NormIdle /\ RunIdle /\ ColorIdle /\ ScoreIdle /\ SessionIdle /\ FetchIdle /\ ExportIdle

\* analyze_btn pressed with u in the text input and t in the selectbox, and a
\* stored analysis is dropped first
SPress_DropsAnalysis(u, t) ==
    /\ mode = "session" /\ pc = "idle"
    /\ url' = u /\ threshold' = t
    /\ heatmap' = <<>>
    /\ analysis' = <<>>
    /\ IF validate_url(u)
       THEN shown' = <<>> /\ pc' = "fetch"
       ELSE shown' = <<"error_invalid_url">> /\ pc' = "view"
    /\ UNCHANGED <<mode, normVars, colorVars, scoreVars, fetchVars, exportVars, page, colors, cleaned_colors,
                   pairs, issues, pass, data, contrast, contrast_chart, readability_local>>

\* analyze_btn pressed with u in the text input and t in the selectbox:
\* is_valid, msg = validate_url(url); if not is_valid: st.error(...)
SPress(u, t) ==
    /\ mode = "session" /\ pc = "idle"
    /\ url' = u /\ threshold' = t
    /\ heatmap' = <<>>
    /\ IF validate_url(u)
       THEN shown' = <<>> /\ pc' = "fetch"
       ELSE shown' = <<"error_invalid_url">> /\ pc' = "view"
    /\ UNCHANGED <<mode, normVars, colorVars, scoreVars, fetchVars, exportVars, page, colors, cleaned_colors,
                   pairs, issues, pass, data, contrast, analysis, contrast_chart, readability_local>>

\* Steps 1 to 5: requests.get and raise_for_status, then extraction,
\* readability and both classification loops; a request failure goes to its
\* except clause
SAnalyze(outcome, doc) ==
    /\ mode = "session" /\ pc = "fetch"
    /\ IF outcome = "ok"
       THEN \E cs \in {extract_colors_from_html_css(doc.colors)} :
            \E cleaned \in {Prefix(CleanColorList(cs), AnalysisCap)} :
            \E ps \in {GeneratePairList(cleaned)} :
            \E found \in {ClassifyAll(ps, threshold)} :
            \E ranked \in {RankAndTruncate(found)} :
               /\ page' = doc.colors
               /\ colors' = cs
               /\ readability_local' = <<compute_readability(doc.text)>>
               /\ cleaned_colors' = cleaned
               /\ pairs' = ps
               /\ issues' = ranked
               /\ pass' = 2
               /\ data' = [issues |-> ranked, pairs |-> ps, total_pairs |-> Len(ps),
                           num_issues |-> Len(ranked), colors |-> cleaned]
               /\ shown' = shown
               /\ pc' = "chart"
       ELSE /\ shown' = Append(shown, IF outcome = "Timeout" THEN "error_timeout"
                                      ELSE IF outcome = "ConnectionError" THEN "error_connection"
                                      ELSE "error_http")
            /\ pc' = "view"
            /\ UNCHANGED <<page, colors, readability_local, cleaned_colors, pairs, issues, pass, data>>
    /\ UNCHANGED <<mode, normVars, colorVars, scoreVars, fetchVars, exportVars, threshold, contrast,
                   url, analysis, contrast_chart, heatmap>>

\* Step 6: try: contrast_chart = plot_lowest_contrast_pairs(data['issues'])
\* except: st.warning(...); data['contrast_chart'] = None
SChart(raises) ==
    /\ mode = "session" /\ pc = "chart"
    /\ IF raises
       THEN shown' = Append(shown, "warning_chart") /\ contrast_chart' = contrast_chart
       ELSE shown' = shown /\ contrast_chart' = <<"chart">>
    /\ pc' = "store"
    /\ UNCHANGED <<mode, normVars, colorVars, scoreVars, fetchVars, exportVars, page, threshold, colors,
                   cleaned_colors, pairs, issues, pass, data, contrast, url, analysis, readability_local, heatmap>>

\* score = compute_overall_score(...) and st.session_state.analysis = {...};
\* reading the unbound name contrast_chart raises NameError, which the
\* handler's except Exception reports
SStore ==
    /\ mode = "session" /\ pc = "store"
    /\ IF contrast_chart = Unset
       THEN shown' = Append(shown, "error_unexpected") /\ analysis' = analysis
       ELSE /\ analysis' = <<[url |-> url,
                              colors |-> colors,
                              readability |-> readability_local[1],
                              issues |-> issues,
                              pairs |-> pairs,
                              score |-> compute_overall_score(Len(issues), Len(pairs),
                                            readability_local[1].flesch_ease, readability_local[1].fk_grade),
                              contrast_chart |-> contrast_chart]>>
            /\ shown' = Append(shown, "success")
    /\ pc' = "view"
    /\ UNCHANGED <<mode, normVars, colorVars, scoreVars, fetchVars, exportVars, page, threshold, colors,
                   cleaned_colors, pairs, issues, pass, data, contrast, url, contrast_chart, readability_local, heatmap>>

\* data = st.session_state.get('analysis'); the results view with its heatmap
\* section, or the empty state; then the script run ends and its locals go
SView ==
    /\ mode = "session" /\ pc = "view"
    /\ heatmap' = IF analysis = <<>> THEN <<>> ELSE <<HeatmapSection(analysis[1])>>
    /\ pc' = "idle"
    /\ page' = <<>> /\ colors' = <<>> /\ cleaned_colors' = <<>> /\ pairs' = <<>> /\ issues' = <<>>
    /\ pass' = 1 /\ data' = EmptyData
    /\ contrast_chart' = Unset /\ readability_local' = <<>>
    /\ UNCHANGED <<mode, normVars, colorVars, scoreVars, fetchVars, exportVars, threshold, contrast,
                   url, analysis, shown>>

SessionNext ==
    \/ \E u \in SessionUrls, t \in Thresholds : SPress(u, t)
    \/ \E outcome \in {"ok", "Timeout", "ConnectionError", "HTTPError"}, doc \in SessionDocs : SAnalyze(outcome, doc)
    \/ \E raises \in BOOLEAN : SChart(raises)
    \/ SStore
    \/ SView

SpecSession == SessionInit /\ [][SessionNext]_vars

Errors == {"error_invalid_url", "error_timeout", "error_connection", "error_http", "error_unexpected"}

\* C24: a run that ends in an error leaves the stored analysis as it was, and
\* the stored analysis changes only in the last step of a run, which reports success.
C24_FailedRunKeepsAnalysis ==
    [][/\ (shown' # shown /\ shown' # <<>> /\ shown'[Len(shown')] \in Errors) => analysis' = analysis
       /\ analysis' # analysis => (pc = "store" /\ pc' = "view" /\ shown' = <<"success">>)]_vars

\* C24 witness: an analysis is stored and a later attempt has ended in an error.
C24_Witness ==
    /\ pc = "view"
    /\ analysis # <<>>
    /\ shown = <<"error_timeout">>
    /\ analysis[1].url = url

\* C25: when rendering the chart raises, a warning is shown, the run completes
\* and the analysis of this run is stored with contrast_chart None.
C25_ChartFailureStored ==
    (pc = "view" /\ shown # <<>> /\ shown[1] = "warning_chart") =>
        /\ shown = <<"warning_chart", "success">>
        /\ analysis # <<>>
        /\ analysis[1].contrast_chart = None
        /\ analysis[1].issues = issues /\ analysis[1].pairs = pairs

\* C26: with flesch_ease None in the stored analysis the results view still
\* generates the heatmap, with readability score 50.
C26_HeatmapDefaultReadability ==
    (pc = "idle" /\ analysis # <<>> /\ heatmap # <<>> /\ analysis[1].readability.flesch_ease = <<>>) =>
        /\ heatmap[1].generated
        /\ heatmap[1].readability_score = <<50>>

\* C27: a stored analysis has at most 15 issues and an overall score, computed
\* from that list, between 45 and 100.
C27_StoredScoreRange ==
    analysis # <<>> =>
        /\ Len(analysis[1].issues) <= IssueCap
        /\ analysis[1].score >= 45 /\ analysis[1].score <= 100
        /\ analysis[1].score <= 100 - 3 * Len(analysis[1].issues)
        /\ analysis[1].score >= 100 - 3 * Len(analysis[1].issues) - 10

\* C27 witness: a stored analysis with 15 issues, hard text and the lowest score.
C27_Witness ==
    /\ analysis # <<>>
    /\ Len(analysis[1].issues) = IssueCap
    /\ analysis[1].readability.flesch_ease = <<40>>
    /\ analysis[1].score = 45

====
